---- MODULE Spec2Model ----
(***************************************************************************)
(* Upload handlers of the video-hosting backend: handlerUploadThumbnail    *)
(* (disk-backed and in-memory variants) and handlerUploadVideo (variants   *)
(* with and without media probing).  One build holds one thumbnail variant *)
(* and one video variant; requests of one build run concurrently, each in  *)
(* its own goroutine, and share the database record, the asset directory,  *)
(* the in-process thumbnail map and the remote object store.               *)
(***************************************************************************)
EXTENDS Integers, Sequences, FiniteSets, TLC

(***************************************************************************)
(* Bounds of the model.                                                    *)
(***************************************************************************)
\* number of requests in flight at once under Spec
NumSlots == 2
\* number of requests the server is sent in one run
MaxReqs == 3
\* longest stream list of a probe report under SpecSeq
MaxStreams == 2

Slots == 1..NumSlots

(***************************************************************************)
(* Values.                                                                 *)
(***************************************************************************)
\* a nil *string (Video.ThumbnailURL, Video.VideoURL)
NilURL == <<>>

\* the one record of the database, its owner and another authenticated user
VideoID == "v1"
OwnerID == "owner"
OtherID == "other"

\* the thumbnail file the record may name when the server starts
InitialAsset == "t0.png"

Portrait == "9:16"
Landscape == "16:9"

(***************************************************************************)
(* Request inputs.                                                         *)
(*   id:       the {videoID} path value ("bad" does not parse as a UUID,   *)
(*             "v2" parses and names no record)                            *)
(*   tok:      the Authorization header ("none": no bearer token,          *)
(*             "invalid": a token ValidateJWT rejects, otherwise the user  *)
(*             the token names)                                            *)
(*   oversize: the body is longer than maxVideoSize                        *)
(*   part:     the multipart form holds the file field                     *)
(*   ctype:    the Content-Type header of the file part                    *)
(*   bytes:    the content of the file part                                *)
(***************************************************************************)
ContentTypes ==
  {"", "image/png", "image/jpeg", "video/mp4", "text/plain", "image/png; charset=utf-8"}

AllInputs ==
  [id : {"bad", "v1", "v2"}, tok : {"none", "invalid", OwnerID, OtherID},
   oversize : BOOLEAN, part : BOOLEAN, ctype : ContentTypes, bytes : {"a", "b"}]

\* the inputs of concurrent runs: the owner's well-formed uploads, an upload
\* with a rejected content type and one of another user
ConcInputs ==
  {i \in AllInputs :
     /\ i.id = "v1" /\ ~i.oversize /\ i.part /\ i.bytes = "a"
     /\ \/ i.tok = OwnerID /\ i.ctype \in {"image/png", "video/mp4"}
        \/ i.tok = OtherID /\ i.ctype = "image/png"}

NoInput ==
  [id |-> "", tok |-> "", oversize |-> FALSE, part |-> FALSE, ctype |-> "", bytes |-> ""]

(***************************************************************************)
(* Probe reports: what running ffprobe on the staged file gives.           *)
(***************************************************************************)
StreamDims ==
  {<<0, 0>>, <<-1, 5>>, <<1920, 0>>, <<7, 5>>, <<16, 9>>, <<9, 16>>,
   <<1920, 1080>>, <<1080, 1920>>, <<3840, 2160>>, <<1000, 1000>>, <<640, 480>>}

RECURSIVE SeqsUpTo(_, _)
SeqsUpTo(S, n) ==
  IF n = 0 THEN {<<>>}
  ELSE LET shorter == SeqsUpTo(S, n - 1)
       IN  shorter \cup {Append(s, x) : s \in {t \in shorter : Len(t) = n - 1}, x \in S}

Report(out, streams) == [out |-> out, streams |-> streams]

NoReport == Report("none", <<>>)

AllReports ==
  {Report("runfail", <<>>), Report("badjson", <<>>)}
    \cup {Report("ok", s) : s \in SeqsUpTo(StreamDims, MaxStreams)}

ConcReports == {Report("ok", <<>>), Report("ok", <<<<1920, 1080>>>>)}

(***************************************************************************)
(* Pure functions.                                                         *)
(***************************************************************************)
\* mime.ParseMediaType on the part's Content-Type header: the media type
\* without its parameters, "" when the header is empty
ParseMediaType(header) ==
  IF header = "image/png; charset=utf-8" THEN "image/png" ELSE header

\* a divisor that is right only when b divides a: the reduction it gives is not
\* in lowest terms otherwise
gcd_wrong(a, b) == IF b # 0 /\ a % b = 0 THEN b ELSE 1

\* the gcd closure of getVideoAspectRatio: for b != 0 { a, b = b, a%b }
RECURSIVE gcd(_, _)
gcd(a, b) == IF b # 0 THEN gcd(b, a % b) ELSE a

\* fmt.Sprintf("%d:%d", calcWidth, calcHeight)
FormatRatio(calcWidth, calcHeight) ==
  ToString(calcWidth) \o ":" \o ToString(calcHeight)

\* a scan that accepts a stream on its width alone
RECURSIVE ScanStreams_WidthOnly(_, _)
ScanStreams_WidthOnly(streams, i) ==
  IF i > Len(streams)
  THEN [err |-> "no video stream with valid dimensions found", ratio |-> ""]
  ELSE LET Width == streams[i][1]
           Height == streams[i][2]
       IN  IF Width > 0
           THEN LET divisor == gcd(Width, Height)
                IN  [err |-> "", ratio |-> FormatRatio(Width \div divisor, Height \div divisor)]
           ELSE ScanStreams_WidthOnly(streams, i + 1)

\* the loop over result.Streams from index i on
RECURSIVE ScanStreams(_, _)
ScanStreams(streams, i) ==
  IF i > Len(streams)
  THEN [err |-> "no video stream with valid dimensions found", ratio |-> ""]
  ELSE LET Width == streams[i][1]
           Height == streams[i][2]
       IN  IF Width > 0 /\ Height > 0
           THEN LET divisor == gcd(Width, Height)
                IN  [err |-> "", ratio |-> FormatRatio(Width \div divisor, Height \div divisor)]
           ELSE ScanStreams(streams, i + 1)

getVideoAspectRatio(report) ==
  IF report.out = "runfail" THEN [err |-> "failed to run ffprobe", ratio |-> ""]
  ELSE IF report.out = "badjson" THEN [err |-> "failed to parse ffprobe output", ratio |-> ""]
  ELSE IF Len(report.streams) = 0 THEN [err |-> "no streamsa found in video", ratio |-> ""]
  ELSE ScanStreams(report.streams, 1)

\* aspect := "portrait"; if aspectRatio == Landscape { aspect = "landscape" }
Classify(aspectRatio) ==
  IF aspectRatio = Landscape THEN "landscape" ELSE "portrait"

\* the random token request number n draws, base64 text
Token(n) == "k" \o ToString(n)

\* getAssetPath: the token with the extension of the media type
getAssetPath(token, mediaType) ==
  token \o (IF mediaType = "image/png" THEN ".png" ELSE ".jpeg")

\* URLs are kept split at "/": host, then the path segments
getAssetURL(assetPath) == <<"http://localhost:8091", "assets", assetPath>>

\* the asset a URL names: its last path segment
getAssetFromURL(url) == url[Len(url)]

\* fmt.Sprintf("http://localhost:%s/api/thumbnails/%s", cfg.port, videoID)
MemThumbnailURL(videoID) == <<"http://localhost:8091", "api", "thumbnails", videoID>>

\* the Location of an uploaded object
Location(key) == <<"https://tubely.s3.amazonaws.com">> \o key

(***************************************************************************)
(* State.                                                                  *)
(***************************************************************************)
VARIABLES
  thumbVariant,     \* "disk" or "mem": the thumbnail handler of the build
  videoVariant,     \* "probe" or "plain": the video handler of the build
  db,               \* the persisted record: [thumb, video], each a URL or NilURL
  writer,           \* the number of the request whose UpdateVideo wrote db last
  files,            \* names of the files in ./assets
  videoThumbnails,  \* the in-process map, as the set of its entries
  s3,               \* the objects of the remote store
  tempFiles,        \* the staging files, each named by its request's number
  started,          \* the number of requests received so far
  req,              \* the requests in flight, one per slot
  last              \* the request that ended in the last step, as it ended

vars ==
  <<thumbVariant, videoVariant, db, writer, files, videoThumbnails, s3, tempFiles, started,
    req, last>>

\* what no handler changes
build == <<thumbVariant, videoVariant>>

(***************************************************************************)
(* A request: the handler's locals, and a record of what it has done       *)
(* (serial: its number; seen: the writer of the record it read;            *)
(* lookup: GetVideo was called; temp: the staging file was created;        *)
(* stored: the asset was written; uploadErr: Upload returned an error;     *)
(* updCalls: calls of UpdateVideo; updOK: UpdateVideo succeeded; removed:  *)
(* the old asset file was deleted; raced: when its UpdateVideo succeeded,  *)
(* a request of its kind had saved the record since it read it; prior:     *)
(* the map's entries for the video before the request stored its own).     *)
(*                                                                         *)
(* A handler is cut into steps at its accesses to what requests share: the *)
(* record, the map, the object store and the asset files another request   *)
(* may name.  What a handler does to its own locals and to the files only  *)
(* it can name (a freshly named asset, its staging file) is part of the    *)
(* step of the access before it.                                           *)
(***************************************************************************)
IdleReq ==
  [kind |-> "idle", slot |-> 0, serial |-> 0, pc |-> "idle", inp |-> NoInput,
   status |-> 0, msg |-> "",
   videoData |-> [thumb |-> NilURL, video |-> NilURL], mediaType |-> "", data |-> "",
   token |-> "", old |-> "", report |-> NoReport, aspectRatio |-> "", aspect |-> "",
   offset |-> 0, key |-> <<>>,
   seen |-> 0, lookup |-> FALSE, temp |-> FALSE, stored |-> FALSE, uploadErr |-> FALSE,
   updCalls |-> 0, updOK |-> FALSE, removed |-> FALSE, raced |-> FALSE,
   prior |-> {}]

NewReq(kind, r, inp) ==
  [IdleReq EXCEPT !.kind = kind, !.slot = r, !.serial = started', !.inp = inp]

Init ==
  /\ thumbVariant \in {"disk", "mem"}
  /\ videoVariant \in {"probe", "plain"}
  /\ \/ /\ db = [thumb |-> NilURL, video |-> NilURL]
        /\ files = {}
     \/ /\ thumbVariant = "disk"
        /\ db = [thumb |-> getAssetURL(InitialAsset), video |-> NilURL]
        /\ files = {InitialAsset}
  /\ writer = 0
  /\ videoThumbnails = {}
  /\ s3 = {}
  /\ tempFiles = {}
  /\ started = 0
  /\ req = [r \in Slots |-> IdleReq]
  /\ last = IdleReq

(***************************************************************************)
(* Collaborators.                                                          *)
(***************************************************************************)
\* cfg.db.GetVideo: the record, or an error when the identifier names none
GetVideo(videoID) ==
  IF videoID = VideoID THEN [err |-> FALSE, video |-> db]
  ELSE [err |-> TRUE, video |-> [thumb |-> NilURL, video |-> NilURL]]

\* cfg.db.UpdateVideo by request q when it succeeds: the whole record is written
UpdateVideo(q) == db' = q.videoData /\ writer' = q.serial

\* the kind of the request that wrote the record last: a video upload leaves
\* its own token at the end of the video URL
WriterKind ==
  IF writer = 0 THEN "none"
  ELSE IF db.video # NilURL /\ db.video[Len(db.video)] = Token(writer) THEN "video"
  ELSE "thumb"

\* request q is about to save the record over the update of a request of its
\* kind that saved it after q had read it
Raced(q) == writer # q.seen /\ WriterKind = q.kind

\* auth.GetBearerToken and auth.ValidateJWT
TokenError(tok) ==
  IF tok = "none" THEN "Couldn't find JWT"
  ELSE IF tok = "invalid" THEN "Couldn't validate JWT"
  ELSE ""

(***************************************************************************)
(* Steps and responses.                                                    *)
(***************************************************************************)
\* a new request is received and served by the first free goroutine slot
Receive(r) ==
  /\ started < MaxReqs
  /\ started' = started + 1
  /\ req[r].pc = "idle"
  /\ \A s \in Slots : s < r => req[s].pc # "idle"

\* the handler goes on with locals q
Continue(r, q) ==
  /\ req' = [req EXCEPT ![r] = q]
  /\ last' = IdleReq

\* respondWithError / respondWithJSON / w.WriteHeader, then the handler returns
Respond(r, q, code, msg) ==
  /\ req' = [req EXCEPT ![r] = IdleReq]
  /\ last' = [q EXCEPT !.pc = "done", !.status = code, !.msg = msg]

\* a run-time panic: the handler unwinds and writes no response
Panic(r, q, msg) ==
  /\ req' = [req EXCEPT ![r] = IdleReq]
  /\ last' = [q EXCEPT !.pc = "panicked", !.msg = msg]

\* the checks both thumbnail handlers start with: identifier, token, file part
ThumbPrefixError(inp) ==
  IF inp.id = "bad" THEN [code |-> 400, msg |-> "Invalid ID"]
  ELSE IF TokenError(inp.tok) # "" THEN [code |-> 401, msg |-> TokenError(inp.tok)]
  ELSE IF ~inp.part
  THEN [code |-> 500, msg |-> "something went wrong retrieving the form data"]
  ELSE [code |-> 0, msg |-> ""]

(***************************************************************************)
(* handlerUploadThumbnail, disk-backed variant.                            *)
(***************************************************************************)
\* a request arrives: identifier, token, file part and media type are checked,
\* the record is read, the owner checked, the random asset name drawn and the
\* asset file created (os.Create) and written (io.Copy)
ThumbDiskStart(r, inp) ==
  /\ thumbVariant = "disk"
  /\ Receive(r)
  /\ LET q == NewReq("thumb", r, inp)
         e == ThumbPrefixError(inp)
         mediaType == ParseMediaType(inp.ctype)
         got == GetVideo(inp.id)
         q1 == [q EXCEPT !.mediaType = mediaType, !.data = inp.bytes, !.lookup = TRUE]
         q2 == [q1 EXCEPT !.videoData = got.video, !.seen = writer]
     IN  IF e.code # 0 THEN Respond(r, q, e.code, e.msg) /\ UNCHANGED files
         ELSE IF mediaType = ""
         THEN /\ Respond(r, q, 400, "Missing Content-Type for thumbnail")
              /\ UNCHANGED files
         ELSE IF mediaType # "image/jpeg" /\ mediaType # "image/png"
         THEN /\ Respond(r, q, 400, "wrong image type for thumbnail")
              /\ UNCHANGED files
         ELSE IF got.err
         THEN Respond(r, q1, 404, "Video not found") /\ UNCHANGED files
         ELSE IF OwnerID # inp.tok
         THEN /\ Respond(r, q2, 401, "Unauthorized for this video")
              /\ UNCHANGED files
         ELSE \/ /\ Respond(r, q2, 500, "Error creating thumbnail random ID")
                 /\ UNCHANGED files
              \/ LET q3 == [q2 EXCEPT !.token = getAssetPath(Token(q.serial), mediaType)]
                 IN  \/ /\ Respond(r, q3, 500, "Unable to create file")
                        /\ UNCHANGED files
                     \/ /\ Respond(r, q3, 500, "Error saving file")
                        /\ files' = files \cup {q3.token}
                     \/ /\ Continue(r, [q3 EXCEPT !.pc = "update", !.stored = TRUE])
                        /\ files' = files \cup {q3.token}
  /\ UNCHANGED <<build, db, writer, videoThumbnails, s3, tempFiles>>

\* an update step that deletes the old asset file before it saves the record
ThumbDiskUpdate_RemoveFirst(r) ==
  /\ thumbVariant = "disk"
  /\ req[r].kind = "thumb" /\ req[r].pc = "update"
  /\ LET q == req[r]
     IN  IF q.videoData.thumb = NilURL
         THEN /\ Panic(r, q, "nil pointer dereference")
              /\ UNCHANGED <<db, writer, files>>
         ELSE LET q1 == [q EXCEPT !.old = getAssetFromURL(q.videoData.thumb),
                                  !.videoData.thumb = getAssetURL(q.token),
                                  !.updCalls = q.updCalls + 1]
              IN  /\ files' = files \ {q1.old}
                  /\ \/ /\ Respond(r, q1, 500, "Couldn't update video data")
                        /\ UNCHANGED <<db, writer>>
                     \/ /\ UpdateVideo(q1)
                        /\ Continue(r, [q1 EXCEPT !.pc = "remove", !.updOK = TRUE,
                                         !.raced = Raced(q)])
  /\ UNCHANGED <<build, videoThumbnails, s3, tempFiles, started>>

\* the old asset is read off the record, the new URL set and the record saved
ThumbDiskUpdate(r) ==
  /\ thumbVariant = "disk"
  /\ req[r].kind = "thumb" /\ req[r].pc = "update"
  /\ LET q == req[r]
     IN  IF q.videoData.thumb = NilURL
         THEN /\ Panic(r, q, "nil pointer dereference")
              /\ UNCHANGED <<db, writer>>
         ELSE LET q1 == [q EXCEPT !.old = getAssetFromURL(q.videoData.thumb),
                                  !.videoData.thumb = getAssetURL(q.token),
                                  !.updCalls = q.updCalls + 1]
              IN  \/ /\ Respond(r, q1, 500, "Couldn't update video data")
                     /\ UNCHANGED <<db, writer>>
                  \/ /\ UpdateVideo(q1)
                     /\ Continue(r, [q1 EXCEPT !.pc = "remove", !.updOK = TRUE,
                                         !.raced = Raced(q)])
  /\ UNCHANGED <<build, files, videoThumbnails, s3, tempFiles, started>>

\* a remove step that puts the old reference back on the record when the
\* removal fails
ThumbDiskRemove_Revert(r) ==
  /\ thumbVariant = "disk"
  /\ req[r].kind = "thumb" /\ req[r].pc = "remove"
  /\ LET q == req[r]
     IN  \/ /\ q.old \in files
            /\ files' = files \ {q.old}
            /\ Respond(r, [q EXCEPT !.removed = TRUE], 200, "")
            /\ UNCHANGED <<db, writer>>
         \/ /\ UNCHANGED files
            /\ db' = [q.videoData EXCEPT !.thumb = getAssetURL(q.old)]
            /\ writer' = q.serial
            /\ Respond(r, q, 500, "Error removing old thumbnail")
  /\ UNCHANGED <<build, videoThumbnails, s3, tempFiles, started>>

\* os.Remove of the old asset file: an error when no such file exists, or when
\* the file system refuses
ThumbDiskRemove(r) ==
  /\ thumbVariant = "disk"
  /\ req[r].kind = "thumb" /\ req[r].pc = "remove"
  /\ LET q == req[r]
     IN  \/ /\ q.old \in files
            /\ files' = files \ {q.old}
            /\ Respond(r, [q EXCEPT !.removed = TRUE], 200, "")
         \/ /\ UNCHANGED files
            /\ Respond(r, q, 500, "Error removing old thumbnail")
  /\ UNCHANGED <<build, db, writer, videoThumbnails, s3, tempFiles, started>>

(***************************************************************************)
(* handlerUploadThumbnail, in-memory variant.                              *)
(***************************************************************************)
\* the entries of the map without the one of videoID
MapDelete(m, videoID) == {e \in m : e.id # videoID}

\* the entry of the map for videoID, if there is one
MapGet(m, videoID) == {e \in m : e.id = videoID}

\* a start that puts the thumbnail into the map before the record is read and
\* the owner checked
ThumbMemStart_StoreFirst(r, inp) ==
  /\ thumbVariant = "mem"
  /\ Receive(r)
  /\ LET q == NewReq("thumb", r, inp)
         e == ThumbPrefixError(inp)
         mediaType == inp.ctype
         got == GetVideo(inp.id)
         q1 == [q EXCEPT !.mediaType = mediaType, !.data = inp.bytes, !.lookup = TRUE]
         q2 == [q1 EXCEPT !.videoData = got.video, !.seen = writer]
     IN  IF e.code # 0
         THEN Respond(r, q, e.code, e.msg) /\ UNCHANGED videoThumbnails
         ELSE IF mediaType = ""
         THEN /\ Respond(r, q, 400, "Missing Content-Type for thumbnail")
              /\ UNCHANGED videoThumbnails
         ELSE \/ /\ Respond(r, q, 500, "Couldn't read thumbnail file")
                 /\ UNCHANGED videoThumbnails
              \/ /\ videoThumbnails' = MapDelete(videoThumbnails, inp.id)
                      \cup {[id |-> inp.id, data |-> inp.bytes, mediaType |-> mediaType]}
                 /\ IF got.err THEN Respond(r, q1, 404, "Video not found")
                    ELSE IF OwnerID # inp.tok
                    THEN Respond(r, q2, 401, "Unauthorized for this video")
                    ELSE Continue(r, [q2 EXCEPT !.pc = "store"])
  /\ UNCHANGED <<build, db, writer, files, s3, tempFiles>>

\* a request arrives: identifier, token, file part and header are checked, the
\* file is read, the record is read and the owner checked
ThumbMemStart(r, inp) ==
  /\ thumbVariant = "mem"
  /\ Receive(r)
  /\ LET q == NewReq("thumb", r, inp)
         e == ThumbPrefixError(inp)
         mediaType == inp.ctype
         got == GetVideo(inp.id)
         q1 == [q EXCEPT !.mediaType = mediaType, !.data = inp.bytes, !.lookup = TRUE]
         q2 == [q1 EXCEPT !.videoData = got.video, !.seen = writer]
     IN  IF e.code # 0 THEN Respond(r, q, e.code, e.msg)
         ELSE IF mediaType = ""
         THEN Respond(r, q, 400, "Missing Content-Type for thumbnail")
         ELSE \/ Respond(r, q, 500, "Couldn't read thumbnail file")
              \/ IF got.err THEN Respond(r, q1, 404, "Video not found")
                 ELSE IF OwnerID # inp.tok
                 THEN Respond(r, q2, 401, "Unauthorized for this video")
                 ELSE Continue(r, [q2 EXCEPT !.pc = "store"])
  /\ UNCHANGED <<build, db, writer, files, videoThumbnails, s3, tempFiles>>

\* videoThumbnails[videoID] = thumbnail{...} and the new URL on the local record
ThumbMemStore(r) ==
  /\ thumbVariant = "mem"
  /\ req[r].kind = "thumb" /\ req[r].pc = "store"
  /\ LET q == req[r]
     IN  /\ videoThumbnails' = MapDelete(videoThumbnails, q.inp.id)
              \cup {[id |-> q.inp.id, data |-> q.data, mediaType |-> q.mediaType]}
         /\ Continue(r, [q EXCEPT !.pc = "update", !.stored = TRUE,
                                  !.prior = MapGet(videoThumbnails, q.inp.id),
                                  !.videoData.thumb = MemThumbnailURL(q.inp.id)])
  /\ UNCHANGED <<build, db, writer, files, s3, tempFiles, started>>

\* an update step that answers 200 whether or not the record was saved
ThumbMemUpdate_IgnoreError(r) ==
  /\ thumbVariant = "mem"
  /\ req[r].kind = "thumb" /\ req[r].pc = "update"
  /\ LET q == [req[r] EXCEPT !.updCalls = @ + 1]
     IN  \/ /\ videoThumbnails' = MapDelete(videoThumbnails, q.inp.id)
            /\ Respond(r, q, 200, "")
            /\ UNCHANGED <<db, writer>>
         \/ /\ UpdateVideo(q)
            /\ Respond(r, [q EXCEPT !.updOK = TRUE, !.raced = Raced(q)], 200, "")
            /\ UNCHANGED videoThumbnails
  /\ UNCHANGED <<build, files, s3, tempFiles, started>>

\* the record is saved; on failure the map entry is deleted
ThumbMemUpdate(r) ==
  /\ thumbVariant = "mem"
  /\ req[r].kind = "thumb" /\ req[r].pc = "update"
  /\ LET q == [req[r] EXCEPT !.updCalls = @ + 1]
     IN  \/ /\ videoThumbnails' = MapDelete(videoThumbnails, q.inp.id)
            /\ Respond(r, q, 500, "Couldn't update video data")
            /\ UNCHANGED <<db, writer>>
         \/ /\ UpdateVideo(q)
            /\ Respond(r, [q EXCEPT !.updOK = TRUE, !.raced = Raced(q)], 200, "")
            /\ UNCHANGED videoThumbnails
  /\ UNCHANGED <<build, files, s3, tempFiles, started>>

\* a concurrent write of the map by two goroutines, which the runtime may detect:
\* "fatal error: concurrent map writes" ends the process and every request in it;
\* the restarted process has an empty map
ConcurrentMapWrites ==
  /\ thumbVariant = "mem"
  /\ \E r1, r2 \in Slots :
       /\ r1 # r2
       /\ req[r1].kind = "thumb" /\ req[r1].pc = "store"
       /\ req[r2].kind = "thumb" /\ req[r2].pc \in {"store", "update"}
  /\ req' = [r \in Slots |-> IdleReq]
  /\ last' = [IdleReq EXCEPT !.kind = "process", !.pc = "killed",
                             !.msg = "fatal error: concurrent map writes"]
  /\ videoThumbnails' = {}
  /\ UNCHANGED <<build, db, writer, files, s3, tempFiles, started>>

(***************************************************************************)
(* handlerUploadVideo, both variants; the variant with probing adds the    *)
(* probe step and the aspect prefix of the object key.                     *)
(***************************************************************************)
\* a request arrives: identifier, token and body size are checked, the record is
\* read, the owner checked, the file part and its media type read
VideoStart(r, inp) ==
  /\ Receive(r)
  /\ LET q == NewReq("video", r, inp)
         got == GetVideo(inp.id)
         mediaType == ParseMediaType(inp.ctype)
         q1 == [q EXCEPT !.lookup = TRUE]
         q2 == [q1 EXCEPT !.videoData = got.video, !.seen = writer]
     IN  IF inp.id = "bad" THEN Respond(r, q, 400, "Invalid video ID")
         ELSE IF TokenError(inp.tok) # "" THEN Respond(r, q, 401, TokenError(inp.tok))
         ELSE IF inp.oversize THEN Respond(r, q, 400, "File size too big")
         ELSE IF got.err THEN Respond(r, q1, 404, "Video not found")
         ELSE IF OwnerID # inp.tok THEN Respond(r, q2, 401, "Unauthorized for this video")
         ELSE IF ~inp.part
         THEN Respond(r, q2, 500, "something went wrong retrieving the form data")
         ELSE IF mediaType # "video/mp4"
         THEN Respond(r, q2, 400, "wrong content type for video")
         ELSE Continue(r, [q2 EXCEPT !.mediaType = mediaType, !.data = inp.bytes,
                                     !.pc = "stage"])
  /\ UNCHANGED <<build, db, writer, files, videoThumbnails, s3, tempFiles>>

\* a return that leaves the staging file behind
VideoReturn_NoRemove(r, q, code, msg) ==
  /\ Respond(r, q, code, msg)
  /\ tempFiles' = tempFiles \cup {q.serial}

\* a return of the handler after os.CreateTemp succeeded: the response, then
\* the deferred os.Remove(tempFile.Name()) and tempFile.Close()
VideoReturn(r, q, code, msg) ==
  /\ Respond(r, q, code, msg)
  /\ tempFiles' = (tempFiles \cup {q.serial}) \ {q.serial}

\* the object key: the random token, under the aspect in the variant with probing
ObjectKey(aspect, token) ==
  IF videoVariant = "probe" THEN <<aspect, token>> ELSE <<token>>

\* a staging step that does not rewind the handle after the copy
VideoStage_NoSeek(r, report) ==
  /\ req[r].kind = "video" /\ req[r].pc = "stage"
  /\ videoVariant = "plain" => report = NoReport
  /\ videoVariant = "probe" => report # NoReport
  /\ LET q == req[r]
         q1 == [q EXCEPT !.temp = TRUE]
         q2 == [q1 EXCEPT !.offset = 1]
         res == getVideoAspectRatio(report)
         q3 == IF videoVariant = "probe"
               THEN [q2 EXCEPT !.report = report, !.aspectRatio = res.ratio]
               ELSE q2
         q4 == q3
         aspect == IF videoVariant = "probe" THEN Classify(q3.aspectRatio) ELSE ""
     IN  \/ /\ Respond(r, q, 500, "Error creating file")
            /\ UNCHANGED tempFiles
         \/ VideoReturn(r, q1, 500, "Error copying file")
         \/ IF videoVariant = "probe" /\ res.err # ""
            THEN VideoReturn(r, q3, 500, "Failed to get aspect ratio of video")
            ELSE \/ VideoReturn(r, q3, 500, "Error seeking to start of video")
                 \/ VideoReturn(r, q4, 500, "Error creating video random ID")
                 \/ /\ tempFiles' = tempFiles \cup {q.serial}
                    /\ Continue(r, [q4 EXCEPT !.token = Token(q.serial), !.aspect = aspect,
                                              !.key = ObjectKey(aspect, Token(q.serial)),
                                              !.pc = "upload"])
  /\ UNCHANGED <<build, db, writer, files, videoThumbnails, s3, started>>

\* the staging file is created (os.CreateTemp) and written (io.Copy, which
\* leaves the handle at the end); in the variant with probing
\* getVideoAspectRatio runs on it, its probe giving report; the handle is
\* rewound (Seek), the random token drawn and the object key made
VideoStage(r, report) ==
  /\ req[r].kind = "video" /\ req[r].pc = "stage"
  /\ videoVariant = "plain" => report = NoReport
  /\ videoVariant = "probe" => report # NoReport
  /\ LET q == req[r]
         q1 == [q EXCEPT !.temp = TRUE]
         q2 == [q1 EXCEPT !.offset = 1]
         res == getVideoAspectRatio(report)
         q3 == IF videoVariant = "probe"
               THEN [q2 EXCEPT !.report = report, !.aspectRatio = res.ratio]
               ELSE q2
         q4 == [q3 EXCEPT !.offset = 0]
         aspect == IF videoVariant = "probe" THEN Classify(q3.aspectRatio) ELSE ""
     IN  \/ /\ Respond(r, q, 500, "Error creating file")
            /\ UNCHANGED tempFiles
         \/ VideoReturn(r, q1, 500, "Error copying file")
         \/ IF videoVariant = "probe" /\ res.err # ""
            THEN VideoReturn(r, q3, 500, "Failed to get aspect ratio of video")
            ELSE \/ VideoReturn(r, q3, 500, "Error seeking to start of video")
                 \/ VideoReturn(r, q4, 500, "Error creating video random ID")
                 \/ /\ tempFiles' = tempFiles \cup {q.serial}
                    /\ Continue(r, [q4 EXCEPT !.token = Token(q.serial), !.aspect = aspect,
                                              !.key = ObjectKey(aspect, Token(q.serial)),
                                              !.pc = "upload"])
  /\ UNCHANGED <<build, db, writer, files, videoThumbnails, s3, started>>

\* an upload step that saves the record with the new location whether or not
\* the upload succeeded
VideoUpload_Persist(r) ==
  /\ req[r].kind = "video" /\ req[r].pc = "upload"
  /\ LET q == req[r]
         q1 == [q EXCEPT !.videoData.video = Location(q.key), !.updCalls = @ + 1]
     IN  \/ /\ VideoReturn(r, [q1 EXCEPT !.uploadErr = TRUE], 500,
                           "Error uploading video to server")
            /\ UpdateVideo(q1)
            /\ UNCHANGED s3
         \/ /\ s3' = {o \in s3 : o.key # q.key}
                       \cup {[key |-> q.key, contentType |-> q.mediaType,
                              body |-> IF q.offset = 0 THEN q.data ELSE ""]}
            /\ Continue(r, [q EXCEPT !.pc = "update", !.stored = TRUE,
                                     !.videoData.video = Location(q.key)])
            /\ UNCHANGED <<tempFiles, db, writer>>
  /\ UNCHANGED <<build, files, videoThumbnails, started>>

\* uploader.Upload of the staging file from its handle's offset
VideoUpload(r) ==
  /\ req[r].kind = "video" /\ req[r].pc = "upload"
  /\ LET q == req[r]
     IN  \/ /\ VideoReturn(r, [q EXCEPT !.uploadErr = TRUE], 500,
                           "Error uploading video to server")
            /\ UNCHANGED s3
         \/ /\ s3' = {o \in s3 : o.key # q.key}
                       \cup {[key |-> q.key, contentType |-> q.mediaType,
                              body |-> IF q.offset = 0 THEN q.data ELSE ""]}
            /\ Continue(r, [q EXCEPT !.pc = "update", !.stored = TRUE,
                                     !.videoData.video = Location(q.key)])
            /\ UNCHANGED tempFiles
  /\ UNCHANGED <<build, db, writer, files, videoThumbnails, started>>

\* an update step that deletes the uploaded object when the record cannot be
\* saved
VideoUpdate_Rollback(r) ==
  /\ req[r].kind = "video" /\ req[r].pc = "update"
  /\ LET q == [req[r] EXCEPT !.updCalls = @ + 1]
     IN  \/ /\ VideoReturn(r, q, 500, "Couldn't update video data")
            /\ s3' = {o \in s3 : o.key # q.key}
            /\ UNCHANGED <<db, writer>>
         \/ /\ UpdateVideo(q)
            /\ VideoReturn(r, [q EXCEPT !.updOK = TRUE, !.raced = Raced(q)], 201, "")
            /\ UNCHANGED s3
  /\ UNCHANGED <<build, files, videoThumbnails, started>>

\* the record is saved and the handler returns
VideoUpdate(r) ==
  /\ req[r].kind = "video" /\ req[r].pc = "update"
  /\ LET q == [req[r] EXCEPT !.updCalls = @ + 1]
     IN  \/ /\ VideoReturn(r, q, 500, "Couldn't update video data")
            /\ UNCHANGED <<db, writer>>
         \/ /\ UpdateVideo(q)
            /\ VideoReturn(r, [q EXCEPT !.updOK = TRUE, !.raced = Raced(q)], 201, "")
  /\ UNCHANGED <<build, files, videoThumbnails, s3, started>>

(***************************************************************************)
(* The server.                                                             *)
(***************************************************************************)
\* concurrent requests
Next ==
  \/ \E r \in Slots, inp \in ConcInputs : ThumbDiskStart(r, inp)
  \/ \E r \in Slots : ThumbDiskUpdate(r)
  \/ \E r \in Slots : ThumbDiskRemove(r)
  \/ \E r \in Slots, inp \in ConcInputs : ThumbMemStart(r, inp)
  \/ \E r \in Slots : ThumbMemStore(r)
  \/ \E r \in Slots : ThumbMemUpdate(r)
  \/ ConcurrentMapWrites
  \/ \E r \in Slots, inp \in ConcInputs : VideoStart(r, inp)
  \/ \E r \in Slots, report \in ConcReports \cup {NoReport} : VideoStage(r, report)
  \/ \E r \in Slots : VideoUpload(r)
  \/ \E r \in Slots : VideoUpdate(r)

Spec == Init /\ [][Next]_vars

\* the server has served nothing yet
Fresh == started = 0

\* the first request of a server, over every input and every probe report
NextSeq ==
  \/ \E inp \in AllInputs : Fresh /\ ThumbDiskStart(1, inp)
  \/ ThumbDiskUpdate(1)
  \/ ThumbDiskRemove(1)
  \/ \E inp \in AllInputs : Fresh /\ ThumbMemStart(1, inp)
  \/ ThumbMemStore(1)
  \/ ThumbMemUpdate(1)
  \/ \E inp \in AllInputs : Fresh /\ VideoStart(1, inp)
  \/ \E report \in AllReports \cup {NoReport} : VideoStage(1, report)
  \/ VideoUpload(1)
  \/ VideoUpdate(1)

SpecSeq == Init /\ [][NextSeq]_vars

(***************************************************************************)
(* The requests a state shows: those in flight and the one that just ended.*)
(***************************************************************************)
Shown == {req[r] : r \in Slots} \cup {last}

\* the widths and heights a probe report's first usable stream may have
Usable(streams) == {i \in 1..Len(streams) : streams[i][1] > 0 /\ streams[i][2] > 0}

FirstUsable(streams) ==
  streams[CHOOSE i \in Usable(streams) : \A j \in Usable(streams) : i <= j]

\* a request of the variant with probing whose object key was made
Keyed(q) == q.kind = "video" /\ videoVariant = "probe" /\ q.key # <<>>

(***************************************************************************)
(* C1: a probed size whose ratio is 16:9 is classified landscape, one      *)
(* whose ratio is 9:16 portrait, and every other size gets neither of the  *)
(* two names as the prefix of its object key.                              *)
(***************************************************************************)
ExpectedClass(w, h) ==
  IF w * 9 = h * 16 THEN "landscape"
  ELSE IF w * 16 = h * 9 THEN "portrait"
  ELSE "unclassified"

C1_Classification ==
  \A q \in Shown :
    Keyed(q) =>
      LET d == FirstUsable(q.report.streams)
          class == ExpectedClass(d[1], d[2])
      IN  /\ class = "landscape" => q.key[1] = "landscape"
          /\ class = "portrait" => q.key[1] = "portrait"
          /\ class = "unclassified" => q.key[1] \notin {"landscape", "portrait"}

(***************************************************************************)
(* C2: every asset reference of the persisted record names an asset that   *)
(* exists: a thumbnail file of the asset directory or an entry of the      *)
(* in-process map, and an uploaded object.                                 *)
(***************************************************************************)
ThumbnailExists(url) ==
  IF url[2] = "assets" THEN getAssetFromURL(url) \in files
  ELSE \E e \in videoThumbnails : e.id = getAssetFromURL(url)

C2_ReferencesExist ==
  /\ db.thumb # NilURL => ThumbnailExists(db.thumb)
  /\ db.video # NilURL => \E o \in s3 : Location(o.key) = db.video

(***************************************************************************)
(* C3: once the staging file of a video upload was created, it does not    *)
(* exist when the handler has returned, whatever the exit: success, copy,  *)
(* probe, seek, random-source, upload or persistence failure.              *)
(***************************************************************************)
C3_StagingFileRemoved ==
  last.kind = "video" /\ last.pc = "done" /\ last.temp => last.serial \notin tempFiles

\* a video upload returned on a persistence failure, its staging file created
\* and its object uploaded
C3_Witness ==
  /\ last.kind = "video" /\ last.pc = "done" /\ last.temp /\ last.stored
  /\ last.msg = "Couldn't update video data"
  /\ last.serial \notin tempFiles

(***************************************************************************)
(* C4: an upload whose part declares a content type outside the allow-list *)
(* of its kind, the empty one included, is answered with 400 whatever its  *)
(* bytes, stores no asset and makes no change to the record, in every      *)
(* variant of the handlers.  (Stated of a request of the owner that is     *)
(* well-formed otherwise, and whose bytes can be read.)                    *)
(***************************************************************************)
AllowList(kind) ==
  IF kind = "thumb" THEN {"image/jpeg", "image/png"} ELSE {"video/mp4"}

WellFormed(inp) ==
  inp.id = VideoID /\ inp.tok = OwnerID /\ ~inp.oversize /\ inp.part

C4_DisallowedTypeRejected ==
  \A q \in Shown :
    /\ q.kind \in {"thumb", "video"}
    /\ WellFormed(q.inp)
    /\ ParseMediaType(q.inp.ctype) \notin AllowList(q.kind)
    /\ q.msg # "Couldn't read thumbnail file"
    => /\ q.pc = "done" /\ q.status = 400
       /\ ~q.stored /\ q.updCalls = 0

(***************************************************************************)
(* C5: a caller with a valid token who is not the owner of the existing    *)
(* record is answered with 401 by both handlers, whatever the content type *)
(* and whether or not there is a file part.  (Stated of a request within   *)
(* the size limit whose bytes can be read.)                                *)
(***************************************************************************)
C5_NonOwnerUnauthorized ==
  /\ last.pc = "done"
  /\ last.inp.id = VideoID /\ last.inp.tok = OtherID /\ ~last.inp.oversize
  /\ last.msg # "Couldn't read thumbnail file"
  => last.status = 401

(***************************************************************************)
(* C6: when the upload to the object store fails, the video handler        *)
(* answers 500 and has made no call of UpdateVideo, and the record keeps   *)
(* its references: the failing step leaves the record as it was, the       *)
(* record only ever changes by the successful UpdateVideo of a request     *)
(* whose upload did not fail, and where no other request has saved the     *)
(* record since the failing one read it, the record is what it read.       *)
(***************************************************************************)
C6_UploadFailureFrame ==
  [][/\ last'.uploadErr =>
          /\ last'.kind = "video" /\ last'.pc = "done"
          /\ last'.status = 500 /\ last'.msg = "Error uploading video to server"
          /\ last'.updCalls = 0 /\ ~last'.updOK
          /\ db' = db /\ s3' = s3
          /\ writer' = last'.seen => db' = last'.videoData
     /\ \A r \in Slots : ~req'[r].uploadErr
     /\ db' # db =>
          \E q \in Shown' :
            /\ q.serial = writer' /\ writer' # writer
            /\ q.updOK /\ q.updCalls = 1 /\ ~q.uploadErr
            /\ db' = q.videoData]_vars

\* an upload failed for a request that had staged its file
C6_Witness ==
  /\ last.uploadErr /\ last.temp /\ last.status = 500
  /\ last.key # <<>>
  /\ writer = last.seen /\ db = last.videoData

(***************************************************************************)
(* C7: a probe report without a stream of positive width and height makes  *)
(* getVideoAspectRatio return an error and no ratio; the handler answers   *)
(* 500, uploads nothing, chooses no classification and leaves the record   *)
(* alone.  With such a stream, the ratio is that of the first one in the   *)
(* order of the report.                                                    *)
(***************************************************************************)
\* w:h in lowest terms, by search for the least numerator
LowestTerms(w, h) ==
  LET a == CHOOSE n \in 1..w : (n * h) % w = 0 /\ \A m \in 1..(n - 1) : (m * h) % w # 0
  IN  <<a, (a * h) \div w>>

Probed(q) == q.kind = "video" /\ videoVariant = "probe" /\ q.report.out = "ok"

C7_NoUsableStream ==
  \A q \in Shown :
    Probed(q) =>
      IF Usable(q.report.streams) = {}
      THEN /\ getVideoAspectRatio(q.report).err # ""
           /\ getVideoAspectRatio(q.report).ratio = ""
           /\ q.pc = "done" /\ q.status = 500
           /\ q.msg = "Failed to get aspect ratio of video"
           /\ q.aspectRatio = "" /\ q.aspect = "" /\ q.key = <<>>
           /\ ~q.stored /\ q.updCalls = 0
           /\ s3 = {} /\ db = q.videoData
      ELSE LET d == FirstUsable(q.report.streams)
               lt == LowestTerms(d[1], d[2])
           IN  /\ getVideoAspectRatio(q.report).err = ""
               /\ q.aspectRatio = FormatRatio(lt[1], lt[2])

\* a report whose only streams have no positive size was answered with 500
C7_Witness ==
  /\ last.kind = "video" /\ last.pc = "done"
  /\ last.report.out = "ok" /\ Len(last.report.streams) > 0
  /\ Usable(last.report.streams) = {}
  /\ last.status = 500

(***************************************************************************)
(* C8: for a stream of positive width and height the ratio returned is     *)
(* a:b with a and b positive, coprime, and a * height = b * width; 7x5     *)
(* gives 7:5 and 3840x2160 gives 16:9.                                     *)
(***************************************************************************)
Coprime(a, b) == \A k \in 2..(IF a < b THEN a ELSE b) : a % k # 0 \/ b % k # 0

C8_ReducedRatio ==
  \A q \in Shown :
    Probed(q) /\ Usable(q.report.streams) # {} =>
      LET d == FirstUsable(q.report.streams)
          w == d[1]
          h == d[2]
      IN  /\ \E a \in 1..w :
               /\ (a * h) % w = 0
               /\ LET b == (a * h) \div w
                  IN  /\ q.aspectRatio = FormatRatio(a, b)
                      /\ b > 0
                      /\ a * h = b * w
                      /\ Coprime(a, b)
          /\ d = <<7, 5>> => q.aspectRatio = "7:5"
          /\ d = <<3840, 2160>> => q.aspectRatio = "16:9"

\* the ratio of a 3840x2160 stream was computed
C8_Witness ==
  \E q \in Shown :
    /\ Probed(q) /\ Usable(q.report.streams) # {}
    /\ FirstUsable(q.report.streams) = <<3840, 2160>>
    /\ q.aspectRatio = "16:9"

(***************************************************************************)
(* C9: in the disk-backed thumbnail handler an asset file is deleted only  *)
(* as the old asset of a request whose UpdateVideo has succeeded, and the  *)
(* step in which UpdateVideo fails deletes nothing: the old asset file is  *)
(* still there after it.                                                   *)
(***************************************************************************)
C9_DeleteAfterUpdate ==
  [][/\ files \ files' # {} =>
          /\ last'.kind = "thumb" /\ last'.pc = "done"
          /\ last'.updOK /\ last'.updCalls = 1 /\ last'.removed
          /\ files \ files' = {last'.old}
     /\ last'.kind = "thumb" /\ last'.msg = "Couldn't update video data"
          /\ thumbVariant = "disk" =>
          /\ last'.pc = "done" /\ last'.status = 500
          /\ ~last'.updOK /\ ~last'.removed
          /\ files' = files
          /\ last'.old \in files => last'.old \in files']_vars

\* the old asset was deleted by a request that had saved the record
C9_Witness ==
  /\ thumbVariant = "disk"
  /\ last.kind = "thumb" /\ last.pc = "done" /\ last.status = 200
  /\ last.updOK /\ last.removed
  /\ last.old \notin files /\ last.token \in files

(***************************************************************************)
(* C10: when the removal of the old thumbnail file fails, the caller gets  *)
(* 500 although the request's UpdateVideo has succeeded: that step put the *)
(* new reference on the record with the new file in place, and the failing *)
(* step neither reverts the record nor touches the files, so that where no *)
(* other request has saved the record since, it holds the new reference    *)
(* and the new file exists.                                                *)
(***************************************************************************)
C10_RemoveFailure ==
  [][/\ last'.msg = "Error removing old thumbnail" =>
          /\ last'.kind = "thumb" /\ last'.pc = "done" /\ last'.status = 500
          /\ last'.updOK /\ last'.stored /\ ~last'.removed
          /\ db' = db /\ files' = files
          /\ writer' = last'.serial =>
               /\ db'.thumb = getAssetURL(last'.token)
               /\ last'.token \in files'
     /\ \A r \in Slots :
          req'[r].kind = "thumb" /\ req'[r].pc = "remove" /\ req[r].pc # "remove" =>
            /\ req'[r].updOK /\ writer' = req'[r].serial
            /\ db'.thumb = getAssetURL(req'[r].token)
            /\ req'[r].token \in files']_vars

\* the removal failed with the old file in place, the record holding the new
\* reference and the new file present
C10_Witness ==
  /\ last.msg = "Error removing old thumbnail" /\ last.status = 500
  /\ last.old \in files
  /\ db.thumb = getAssetURL(last.token)
  /\ last.token \in files

(***************************************************************************)
(* C11: when UpdateVideo fails after the upload succeeded, the video       *)
(* handler answers 500, the uploaded object stays in the store, and the    *)
(* record keeps the video reference it had: no record refers to the        *)
(* object.                                                                 *)
(***************************************************************************)
C11_OrphanedObject ==
  [][last'.kind = "video" /\ last'.msg = "Couldn't update video data" =>
       /\ last'.pc = "done" /\ last'.status = 500
       /\ last'.stored /\ last'.updCalls = 1 /\ ~last'.updOK
       /\ s3' = s3
       /\ \E o \in s3' : o.key = last'.key /\ o.body = last'.data
       /\ db' = db
       /\ db'.video # Location(last'.key)]_vars

\* the record could not be saved after an upload: the object is in the store
\* and the record does not name it
C11_Witness ==
  /\ last.kind = "video" /\ last.msg = "Couldn't update video data"
  /\ last.status = 500
  /\ \E o \in s3 : o.key = last.key
  /\ db.video # Location(last.key)

(***************************************************************************)
(* C12: of two concurrent uploads of one kind for the record whose         *)
(* UpdateVideo both succeed, both are answered with success, and the       *)
(* record holds the reference of the one that saved it last.  (Stated of   *)
(* the request that saved the record second, and of runs in which the file *)
(* system does not refuse a removal.)                                      *)
(***************************************************************************)
RefOf(kind, video) == IF kind = "thumb" THEN video.thumb ELSE video.video

C12_LastWriterWins ==
  /\ last.pc = "done" /\ last.updOK /\ last.raced
  /\ last.kind = "thumb" /\ thumbVariant = "disk" => last.removed \/ last.old \notin files
  => /\ last.status \in {200, 201}
     /\ writer = last.serial => RefOf(last.kind, db) = RefOf(last.kind, last.videoData)

(***************************************************************************)
(* C13: a request is answered with success (200 for a thumbnail, 201 for a *)
(* video) only if it stored its asset and its UpdateVideo of the record    *)
(* with the new reference succeeded; a request answered with 400, 401 or   *)
(* 404 has stored no asset and has not called UpdateVideo.                 *)
(***************************************************************************)
\* the asset request q made exists where its kind and variant keep it
AssetExists(q) ==
  IF q.kind = "video" THEN \E o \in s3 : o.key = q.key /\ Location(o.key) = q.videoData.video
  ELSE IF thumbVariant = "disk"
  THEN q.token \in files /\ q.videoData.thumb = getAssetURL(q.token)
  ELSE /\ \E e \in videoThumbnails : e.id = q.inp.id /\ e.data = q.data
       /\ q.videoData.thumb = MemThumbnailURL(q.inp.id)

C13_SuccessMeansStoredAndSaved ==
  last.pc = "done" =>
    /\ last.status \in {200, 201} =>
         /\ last.status = (IF last.kind = "thumb" THEN 200 ELSE 201)
         /\ last.stored /\ last.updOK /\ last.updCalls = 1
         /\ AssetExists(last)
         /\ writer = last.serial /\ db = last.videoData
    /\ last.status \in {400, 401, 404} =>
         /\ ~last.stored /\ ~last.temp /\ last.updCalls = 0 /\ ~last.updOK
         /\ writer = 0

\* a video upload was answered with 201
C13_Witness ==
  /\ last.pc = "done" /\ last.kind = "video" /\ last.status = 201
  /\ last.stored /\ last.updOK
  /\ db.video = Location(last.key)

(***************************************************************************)
(* C14: a request larger than the handler's upper bound is answered with   *)
(* 400 before the record is read, and nothing is staged, stored or saved,  *)
(* by the video handler and by the thumbnail handler alike.  (Stated of a  *)
(* request with a file part whose identifier and token pass the checks    *)
(* that come first.)                                                       *)
(***************************************************************************)
C14_OversizeRejected ==
  \A q \in Shown :
    /\ q.kind \in {"thumb", "video"}
    /\ q.inp.oversize /\ q.inp.part
    /\ q.inp.id # "bad" /\ TokenError(q.inp.tok) = ""
    => /\ q.pc = "done" /\ q.status = 400
       /\ ~q.lookup /\ ~q.temp /\ ~q.stored /\ q.updCalls = 0

(***************************************************************************)
(* C15: a successful upload replaces one reference of the record and       *)
(* leaves the other as it was persisted right before the request's         *)
(* UpdateVideo: a thumbnail upload does not change the video reference and *)
(* a video upload does not change the thumbnail reference, also when the   *)
(* two interleave.                                                         *)
(***************************************************************************)
C15_OtherReferenceKept ==
  [][\A q \in Shown' :
       q.serial = writer' /\ writer' # writer /\ q.updOK =>
         /\ q.kind = "thumb" => db'.video = db.video
         /\ q.kind = "video" => db'.thumb = db.thumb]_vars

(***************************************************************************)
(* C16: a thumbnail upload of the owner with an allowed content type ends  *)
(* in a written response, 200 or an error status with a message, and never *)
(* in a crash, whatever the record holds, a record without a thumbnail     *)
(* reference included.                                                     *)
(***************************************************************************)
C16_ThumbnailResponds ==
  /\ last.kind = "thumb"
  /\ last.inp.id = VideoID /\ last.inp.tok = OwnerID
  /\ ParseMediaType(last.inp.ctype) \in AllowList("thumb")
  => /\ last.pc = "done"
     /\ \/ last.status = 200
        \/ last.status \in {400, 401, 404, 500} /\ last.msg # ""

(***************************************************************************)
(* C17: the video handler copies the whole payload into the staging file,  *)
(* then probes it (variant with probing), then rewinds the handle to       *)
(* offset 0, then makes the key, then uploads, then calls UpdateVideo; the *)
(* upload never starts at another offset than 0, and the stored object is  *)
(* the whole payload.                                                      *)
(***************************************************************************)
ProbeDone(q) == videoVariant = "probe" => q.report.out = "ok" /\ q.aspectRatio # ""

C17_StepOrder ==
  /\ \A q \in Shown :
       q.kind = "video" =>
         /\ q.msg = "Error copying file" =>
              q.temp /\ q.report = NoReport /\ q.token = "" /\ ~q.stored
         /\ q.msg = "Failed to get aspect ratio of video" =>
              q.temp /\ q.offset = 1 /\ q.token = "" /\ q.key = <<>> /\ ~q.stored
         /\ q.msg = "Error seeking to start of video" =>
              q.temp /\ ProbeDone(q) /\ q.offset = 1 /\ q.token = "" /\ ~q.stored
         /\ q.msg = "Error creating video random ID" =>
              q.temp /\ ProbeDone(q) /\ q.offset = 0 /\ q.key = <<>> /\ ~q.stored
         /\ q.pc = "upload" \/ q.uploadErr =>
              /\ q.temp /\ ProbeDone(q) /\ q.offset = 0
              /\ q.token # "" /\ q.key # <<>>
              /\ ~q.stored /\ q.updCalls = 0
         /\ q.stored =>
              /\ q.temp /\ ProbeDone(q) /\ q.offset = 0 /\ q.key # <<>>
              /\ \E o \in s3 : o.key = q.key /\ o.body = q.data /\ q.data # ""
         /\ q.updCalls > 0 => q.stored
  /\ \A o \in s3 : o.body # ""

\* a video was uploaded from offset 0 and the record saved
C17_Witness ==
  /\ last.kind = "video" /\ last.status = 201 /\ last.offset = 0
  /\ \E o \in s3 : o.key = last.key /\ o.body = last.data /\ o.body = "b"

(***************************************************************************)
(* C18: in the in-memory thumbnail variant a request whose UpdateVideo     *)
(* fails leaves the record and the map as they were before the request,    *)
(* also when the map held a thumbnail for the video already.               *)
(***************************************************************************)
C18_FailureRestoresMap ==
  [][/\ thumbVariant = "mem" /\ last'.kind = "thumb"
     /\ last'.msg = "Couldn't update video data"
     => /\ db' = db
        /\ MapGet(videoThumbnails', last'.inp.id) = last'.prior]_vars

(***************************************************************************)
(* C19: a request that fails the parsing of its identifier, the validation *)
(* of its token, the lookup of the record or the check of its owner has no *)
(* effect, in any variant: it creates no asset file and no staging file,   *)
(* changes no entry of the map, uploads no object, deletes nothing and     *)
(* does not call UpdateVideo.                                              *)
(***************************************************************************)
Rejected(q) ==
  q.msg \in {"Invalid ID", "Invalid video ID", "Couldn't find JWT", "Couldn't validate JWT",
             "Video not found", "Unauthorized for this video"}

C19_RejectedNoEffect ==
  [][Rejected(last') =>
       /\ last'.pc = "done" /\ last'.status \in {400, 401, 404}
       /\ started' = started + 1
       /\ ~last'.stored /\ ~last'.temp /\ ~last'.removed /\ last'.updCalls = 0
       /\ files' = files /\ tempFiles' = tempFiles
       /\ videoThumbnails' = videoThumbnails /\ s3' = s3
       /\ db' = db /\ writer' = writer]_vars

\* a thumbnail upload of another user than the owner was refused after the
\* record was read
C19_Witness ==
  /\ last.kind = "thumb" /\ last.msg = "Unauthorized for this video"
  /\ last.status = 401 /\ last.lookup
  /\ ParseMediaType(last.inp.ctype) = "image/png"
  /\ videoThumbnails = {} /\ s3 = {} /\ tempFiles = {}

====
